---- MODULE Spec2Model ----
(***************************************************************************)
(* The in-memory store of the PLERA Live backend (src/main.py) and the     *)
(* handlers that change it: merge_state (POST /state, POST /dms),          *)
(* create_or_update_post (POST /posts), create_or_update_event             *)
(* (POST /events).                                                         *)
(*                                                                         *)
(* A Python list is a sequence.  A Python dict whose values carry their    *)
(* key (users_by_id, posts_by_id, events_by_id) is the sequence of its     *)
(* values in insertion order; a dict compared only by content              *)
(* (Dms.threads, DmThread.unread) is a function on its key set.  A ticker   *)
(* line, which the code strips, is the sequence of its blanks and of its   *)
(* runs of other characters.                                               *)
(***************************************************************************)
EXTENDS Integers, Sequences, FiniteSets

VARIABLES db, pc, req, local

vars == <<db, pc, req, local>>

-----------------------------------------------------------------------------
(* Bounds of the model.                                                    *)

\* Largest number of items (entities, ticker lines, DM messages, unread
\* entries, empty threads) one incoming State carries.
MaxIncoming == 2

\* Largest number of items the store holds beyond its initial ticker lines.
MaxStore == 2

-----------------------------------------------------------------------------
(* Values requests are built from.                                         *)

Users == {[id |-> "u1", name |-> "Ann"], [id |-> "u1", name |-> "Anna"],
          [id |-> "u2", name |-> "Bob"]}

Posts == {[id |-> 1, userId |-> "u1", createdAt |-> 100, likes |-> 0],
          [id |-> 1, userId |-> "u1", createdAt |-> 200, likes |-> 5],
          [id |-> 2, userId |-> "u2", createdAt |-> 100, likes |-> 0]}

Events == {[id |-> 1, title |-> "meetup", capacity |-> 40],
           [id |-> 1, title |-> "meetup", capacity |-> 50],
           [id |-> 2, title |-> "picnic", capacity |-> 40]}

Messages == {[from |-> "u1", text |-> "hi", ts |-> 1],
             [from |-> "u2", text |-> "hi", ts |-> 1]}

\* Contact ids, the keys of Dms.threads
ThreadIds == {"c1"}

\* The users of the unread maps, and their counts
UnreadIds == {"u1"}

UnreadCounts == {1, 2}

\* Incoming ticker lines: " a ", "b" and " "
Lines == {<<" ", "a", " ">>, <<"b">>, <<" ">>}

-----------------------------------------------------------------------------
(* Helpers.                                                                *)

Max(a, b) == IF a >= b THEN a ELSE b

Range(s) == {s[i] : i \in DOMAIN s}

SeqsUpTo(S, n) == UNION {[1..k -> S] : k \in 0..n}

RECURSIVE SumOver(_, _)
SumOver(f, D) ==
    IF D = {} THEN 0
    ELSE LET x == CHOOSE y \in D : TRUE IN f[x] + SumOver(f, D \ {x})

-----------------------------------------------------------------------------
(* The models of src/main.py:31-89.                                        *)

\* class DmThread
DmThread(tid, messages, unread) ==
    [contactId |-> tid, messages |-> messages, unread |-> unread]

\* class Dms: threads defaults to the empty dict
NoThreads == [t \in {} |-> DmThread(t, <<>>, <<>>)]

\* class State: every collection defaults to empty
State(users, posts, events, threads, tickerLines) ==
    [users |-> users, posts |-> posts, events |-> events,
     dms |-> [threads |-> threads], tickerLines |-> tickerLines]

EmptyState == State(<<>>, <<>>, <<>>, NoThreads, <<>>)

-----------------------------------------------------------------------------
(* The pieces of merge_state.                                              *)

\* d[e.id] = e as a list that appends, whether or not the key is there
DictSetAppending(d, e) == Append(d, e)

\* d[e.id] = e on a dict kept as the sequence of its values: an existing
\* key keeps its position, a new key goes last.
DictSet(d, e) ==
    IF \E i \in DOMAIN d : d[i].id = e.id
    THEN [i \in DOMAIN d |-> IF d[i].id = e.id THEN e ELSE d[i]]
    ELSE Append(d, e)

\* for e in list: d.setdefault(e.id, e), the first entity of an id kept
RECURSIVE UpsertAllKeepingFirst(_, _)
UpsertAllKeepingFirst(d, list) ==
    IF list = <<>> THEN d
    ELSE IF \E i \in DOMAIN d : d[i].id = Head(list).id
         THEN UpsertAllKeepingFirst(d, Tail(list))
         ELSE UpsertAllKeepingFirst(Append(d, Head(list)), Tail(list))

\* for e in list: d[e.id] = e
RECURSIVE UpsertAll(_, _)
UpsertAll(d, list) ==
    IF list = <<>> THEN d
    ELSE UpsertAll(DictSet(d, Head(list)), Tail(list))

\* {e.id: e for e in list}
ById(list) == UpsertAll(<<>>, list)

\* Place p ahead of the elements of its createdAt, as a sort that is not
\* stable would.
RECURSIVE InsertDescAheadOfEqual(_, _)
InsertDescAheadOfEqual(sorted, p) ==
    IF sorted = <<>> THEN <<p>>
    ELSE IF Head(sorted).createdAt > p.createdAt
         THEN <<Head(sorted)>> \o InsertDescAheadOfEqual(Tail(sorted), p)
         ELSE <<p>> \o sorted

\* Place p in a list sorted by createdAt descending, after every element
\* whose createdAt is not smaller.
RECURSIVE InsertDesc(_, _)
InsertDesc(sorted, p) ==
    IF sorted = <<>> THEN <<p>>
    ELSE IF Head(sorted).createdAt >= p.createdAt
         THEN <<Head(sorted)>> \o InsertDesc(Tail(sorted), p)
         ELSE <<p>> \o sorted

\* sorted(values, key=lambda p: p.createdAt, reverse=True): Python's sort is
\* stable, and reverse=True keeps the original order of equal keys.
RECURSIVE SortedByCreatedAtDesc(_)
SortedByCreatedAtDesc(values) ==
    IF values = <<>> THEN <<>>
    ELSE InsertDesc(SortedByCreatedAtDesc(SubSeq(values, 1, Len(values) - 1)),
                    values[Len(values)])

\* Users: upsert by id
MergeUsers(users, incoming) == UpsertAll(ById(users), incoming)

\* Posts: upsert by id, then sort
MergePosts(posts, incoming) ==
    SortedByCreatedAtDesc(UpsertAll(ById(posts), incoming))

\* Events: upsert by id
MergeEvents(events, incoming) == UpsertAll(ById(events), incoming)

\* (m.ts, m.from_, m.text)
Key(m) == <<m.ts, m.from, m.text>>

\* The loop without the test on key_existing
MergeMessagesAppendingAll(existing, messages) == existing \o messages

\* The loop with key_existing extended by every message it appends
RECURSIVE MergeMessagesSeenAsAppended(_, _)
MergeMessagesSeenAsAppended(existing, messages) ==
    IF messages = <<>> THEN existing
    ELSE IF \E i \in DOMAIN existing : <<existing[i].ts, existing[i].from, existing[i].text>>
                = <<Head(messages).ts, Head(messages).from, Head(messages).text>>
         THEN MergeMessagesSeenAsAppended(existing, Tail(messages))
         ELSE MergeMessagesSeenAsAppended(Append(existing, Head(messages)), Tail(messages))

\* The messages of an existing thread after the loop over thread.messages:
\* key_existing is computed once, before the loop.
MergeMessages(existing, messages) ==
    LET key_existing == {Key(m) : m \in Range(existing)}
        missing(m) == Key(m) \notin key_existing
    IN existing \o SelectSeq(messages, missing)

\* Unread: the incoming count taken as it is
MergeUnreadOverwriting(existing, unread) ==
    [uid \in DOMAIN existing \cup DOMAIN unread |->
        IF uid \in DOMAIN unread THEN unread[uid] ELSE existing[uid]]

\* Unread: keep max per user
MergeUnread(existing, unread) ==
    [uid \in DOMAIN existing \cup DOMAIN unread |->
        IF uid \in DOMAIN unread
        THEN Max(IF uid \in DOMAIN existing THEN existing[uid] ELSE 0, unread[uid])
        ELSE existing[uid]]

\* DMs: db.dms.threads = incoming.dms.threads
MergeThreadsReplacing(threads, incoming) == incoming

\* DMs: merge threads, append missing messages
MergeThreads(threads, incoming) ==
    [tid \in DOMAIN threads \cup DOMAIN incoming |->
        IF tid \notin DOMAIN incoming THEN threads[tid]
        ELSE IF tid \notin DOMAIN threads THEN incoming[tid]
        ELSE [threads[tid] EXCEPT
                !.messages = MergeMessages(@, incoming[tid].messages),
                !.unread = MergeUnread(@, incoming[tid].unread)]]

IsSpace(c) == c = " "

\* line.strip()
RECURSIVE LStrip(_)
LStrip(line) ==
    IF line # <<>> /\ IsSpace(Head(line)) THEN LStrip(Tail(line)) ELSE line

RECURSIVE RStrip(_)
RStrip(line) ==
    IF line # <<>> /\ IsSpace(line[Len(line)])
    THEN RStrip(SubSeq(line, 1, Len(line) - 1)) ELSE line

Strip(line) == RStrip(LStrip(line))

\* The loop over db.tickerLines + incoming.tickerLines; seen is the set of
\* the lines already in merged.
RECURSIVE TickerLoop(_, _)
TickerLoop(merged, lines) ==
    IF lines = <<>> THEN merged
    ELSE LET line == Strip(Head(lines))
         IN IF line = <<>> \/ line \in Range(merged)
            THEN TickerLoop(merged, Tail(lines))
            ELSE TickerLoop(Append(merged, line), Tail(lines))

\* The loop over incoming.tickerLines + db.tickerLines
MergeTickerIncomingFirst(tickerLines, incoming) ==
    TickerLoop(<<>>, incoming \o tickerLines)

\* Ticker: union + preserve order from db then incoming
MergeTicker(tickerLines, incoming) == TickerLoop(<<>>, tickerLines \o incoming)

\* merge_state(incoming), as the value of db it leaves
Merged(store, incoming) ==
    State(MergeUsers(store.users, incoming.users),
          MergePosts(store.posts, incoming.posts),
          MergeEvents(store.events, incoming.events),
          MergeThreads(store.dms.threads, incoming.dms.threads),
          MergeTicker(store.tickerLines, incoming.tickerLines))

\* create_or_update_post(post), as the value of db.posts it leaves
PostUpserted(posts, post) == SortedByCreatedAtDesc(DictSet(ById(posts), post))

\* create_or_update_event(ev), as the value of db.events it leaves
EventUpserted(events, ev) == DictSet(ById(events), ev)

-----------------------------------------------------------------------------------------------------------------------------------------------------
(* The requests of the model.  An incoming State carries at most           *)
(* MaxIncoming items over its five collections together.                   *)

UnreadMaps == UNION {[U -> UnreadCounts] : U \in SUBSET UnreadIds}

\* What a thread counts for in MaxIncoming: its messages and unread
\* entries, and 1 when it has neither.
ThreadWeight(t) == Max(1, Len(t.messages) + Cardinality(DOMAIN t.unread))

ThreadsFor(tid) ==
    {t \in {DmThread(tid, ms, un) :
                ms \in SeqsUpTo(Messages, MaxIncoming), un \in UnreadMaps} :
        ThreadWeight(t) <= MaxIncoming}

ThreadsWeight(th) ==
    SumOver([tid \in DOMAIN th |-> ThreadWeight(th[tid])], DOMAIN th)

\* The values of Dms.threads of total weight n; a thread's contactId is its key.
IncomingThreads(n) ==
    {th \in UNION {[T -> UNION {ThreadsFor(tid) : tid \in T}] :
                        T \in SUBSET ThreadIds} :
        /\ \A tid \in DOMAIN th : th[tid].contactId = tid
        /\ ThreadsWeight(th) = n}

\* How the items of an incoming State spread over users, posts, events,
\* threads and ticker lines.
Splits ==
    {w \in [1..5 -> 0..MaxIncoming] : w[1] + w[2] + w[3] + w[4] + w[5] <= MaxIncoming}

\* The bodies of POST /state
IncomingStates ==
    UNION {{State(us, ps, es, th, ls) :
                us \in [1..w[1] -> Users], ps \in [1..w[2] -> Posts],
                es \in [1..w[3] -> Events], th \in IncomingThreads(w[4]),
                ls \in [1..w[5] -> Lines]} : w \in Splits}

\* The bodies of POST /dms
IncomingDms == UNION {IncomingThreads(n) : n \in 0..MaxIncoming}

\* The lists of users, posts, events and ticker lines of the incoming states
IncomingUsers == SeqsUpTo(Users, MaxIncoming)

IncomingPosts == SeqsUpTo(Posts, MaxIncoming)

IncomingEvents == SeqsUpTo(Events, MaxIncoming)

IncomingTickerLines == SeqsUpTo(Lines, MaxIncoming)

\* The incoming states that carry one collection only
OnlyUsers(us) == State(us, <<>>, <<>>, NoThreads, <<>>)

OnlyPosts(ps) == State(<<>>, ps, <<>>, NoThreads, <<>>)

OnlyEvents(es) == State(<<>>, <<>>, es, NoThreads, <<>>)

OnlyDms(th) == State(<<>>, <<>>, <<>>, th, <<>>)

OnlyTickerLines(ls) == State(<<>>, <<>>, <<>>, NoThreads, ls)

-----------------------------------------------------------------------------
(* The store and its handlers, one request at a time.                      *)

\* Number of items of the store, counted as the items of an incoming state.
StoreSize(store) ==
    Len(store.users) + Len(store.posts) + Len(store.events)
    + SumOver([tid \in DOMAIN store.dms.threads |->
                    ThreadWeight(store.dms.threads[tid])],
              DOMAIN store.dms.threads)
    + Len(store.tickerLines)

\* The initial ticker lines, a blank or a word per element.
InitialTickerLines ==
    << <<"PLERA", " ", "Live", " ", "·", " ", "local-first", " ", "social", " ", "feed">>,
       <<"Remember", " ", "to", " ", "take", " ", "a", " ", "stretch", " ", "+", " ",
         "water", " ", "break">>,
       <<"Today", " ", "is", " ", "a", " ", "good", " ", "day", " ", "to", " ",
         "create", " ", "something", " ", "small">> >>

\* db = State(tickerLines=[...])
InitialDb == State(<<>>, <<>>, <<>>, NoThreads, InitialTickerLines)

\* The threads of the server's pool that run the handlers
Workers == {"w1", "w2"}

NoRequest == [kind |-> "none"]

Init ==
    /\ db = InitialDb
    /\ pc = [w \in Workers |-> "idle"]
    /\ req = [w \in Workers |-> NoRequest]
    /\ local = [w \in Workers |-> <<>>]

\* The store holds at most MaxStore items beyond its initial ticker lines.
Fits(store) == StoreSize(store) <= MaxStore + Len(InitialTickerLines)

\* merge_state(incoming)
merge_state(incoming) ==
    LET merged == Merged(db, incoming) IN
    /\ Fits(merged)
    /\ db' = merged
    /\ UNCHANGED <<pc, req, local>>

\* POST /state
post_state == \E incoming \in IncomingStates : merge_state(incoming)

\* POST /dms: merge_state(State(dms=incoming))
sync_dms ==
    \E incoming \in IncomingDms :
        merge_state(OnlyDms(incoming))

\* POST /posts
create_or_update_post ==
    \E post \in Posts :
        /\ Fits([db EXCEPT !.posts = PostUpserted(db.posts, post)])
        /\ db' = [db EXCEPT !.posts = PostUpserted(db.posts, post)]
        /\ UNCHANGED <<pc, req, local>>

\* POST /events
create_or_update_event ==
    \E ev \in Events :
        /\ Fits([db EXCEPT !.events = EventUpserted(db.events, ev)])
        /\ db' = [db EXCEPT !.events = EventUpserted(db.events, ev)]
        /\ UNCHANGED <<pc, req, local>>

Next ==
    \/ post_state
    \/ sync_dms
    \/ create_or_update_post
    \/ create_or_update_event

Spec == Init /\ [][Next]_vars

-----------------------------------------------------------------------------
(* The handlers run by two threads of the pool at once, a statement at a   *)
(* time: nothing in src/main.py locks db.  pc[w] is the statement worker w *)
(* is at, req[w] its request, local[w] its posts_by_id.  The requests of   *)
(* this part carry posts only, so the statements of merge_state on users,  *)
(* events, threads and ticker lines are one step each.                     *)

\* The bodies of POST /state of this part: one post, nothing else
ConcIncoming == {OnlyPosts(<<post>>) : post \in Posts}

\* A request arrives at an idle worker.
Receive(w) ==
    /\ pc[w] = "idle"
    /\ \/ \E post \in Posts :
            /\ req' = [req EXCEPT ![w] = [kind |-> "post", post |-> post]]
            /\ pc' = [pc EXCEPT ![w] = "post_build"]
       \/ \E incoming \in ConcIncoming :
            /\ req' = [req EXCEPT ![w] = [kind |-> "state", incoming |-> incoming]]
            /\ pc' = [pc EXCEPT ![w] = "users"]
    /\ UNCHANGED <<db, local>>

\* create_or_update_post: posts_by_id = {...}; posts_by_id[post.id] = post
PostBuild(w) ==
    /\ pc[w] = "post_build"
    /\ local' = [local EXCEPT ![w] = DictSet(ById(db.posts), req[w].post)]
    /\ pc' = [pc EXCEPT ![w] = "post_assign"]
    /\ UNCHANGED <<db, req>>

\* The assignment of a handler that upserts its mapping into the db.posts
\* of the moment, as it would under a lock held from the read on
PostsAssignedOntoCurrent(current, mapping) ==
    SortedByCreatedAtDesc(UpsertAll(ById(current), mapping))

\* db.posts = sorted(posts_by_id.values(), ...), as the value assigned:
\* it is made of the worker's mapping alone, whatever db.posts holds by now.
PostsAssigned(current, mapping) == SortedByCreatedAtDesc(mapping)

\* create_or_update_post: db.posts = sorted(...); return post
PostAssign(w) ==
    /\ pc[w] = "post_assign"
    /\ db' = [db EXCEPT !.posts = PostsAssigned(db.posts, local[w])]
    /\ pc' = [pc EXCEPT ![w] = "done"]
    /\ UNCHANGED <<req, local>>

\* merge_state: Users: upsert by id
StateUsers(w) ==
    /\ pc[w] = "users"
    /\ db' = [db EXCEPT !.users = MergeUsers(db.users, req[w].incoming.users)]
    /\ pc' = [pc EXCEPT ![w] = "posts_build"]
    /\ UNCHANGED <<req, local>>

\* merge_state: posts_by_id = {...}; for p in incoming.posts: ...
StatePostsBuild(w) ==
    /\ pc[w] = "posts_build"
    /\ local' = [local EXCEPT ![w] = UpsertAll(ById(db.posts), req[w].incoming.posts)]
    /\ pc' = [pc EXCEPT ![w] = "posts_assign"]
    /\ UNCHANGED <<db, req>>

\* merge_state: db.posts = sorted(...)
StatePostsAssign(w) ==
    /\ pc[w] = "posts_assign"
    /\ db' = [db EXCEPT !.posts = PostsAssigned(db.posts, local[w])]
    /\ pc' = [pc EXCEPT ![w] = "events"]
    /\ UNCHANGED <<req, local>>

\* merge_state: Events: upsert by id
StateEvents(w) ==
    /\ pc[w] = "events"
    /\ db' = [db EXCEPT !.events = MergeEvents(db.events, req[w].incoming.events)]
    /\ pc' = [pc EXCEPT ![w] = "dms"]
    /\ UNCHANGED <<req, local>>

\* merge_state: DMs: merge threads, append missing messages
StateDms(w) ==
    /\ pc[w] = "dms"
    /\ db' = [db EXCEPT !.dms.threads =
                            MergeThreads(db.dms.threads, req[w].incoming.dms.threads)]
    /\ pc' = [pc EXCEPT ![w] = "ticker"]
    /\ UNCHANGED <<req, local>>

\* merge_state: Ticker: union; post_state: return db
StateTicker(w) ==
    /\ pc[w] = "ticker"
    /\ db' = [db EXCEPT !.tickerLines =
                            MergeTicker(db.tickerLines, req[w].incoming.tickerLines)]
    /\ pc' = [pc EXCEPT ![w] = "done"]
    /\ UNCHANGED <<req, local>>

\* The response is sent; the worker is free for the next request.
Respond(w) ==
    /\ pc[w] = "done"
    /\ pc' = [pc EXCEPT ![w] = "idle"]
    /\ req' = [req EXCEPT ![w] = NoRequest]
    /\ local' = [local EXCEPT ![w] = <<>>]
    /\ UNCHANGED db

NextConc ==
    \E w \in Workers :
        \/ Receive(w)
        \/ PostBuild(w)
        \/ PostAssign(w)
        \/ StateUsers(w)
        \/ StatePostsBuild(w)
        \/ StatePostsAssign(w)
        \/ StateEvents(w)
        \/ StateDms(w)
        \/ StateTicker(w)
        \/ Respond(w)

SpecConc == Init /\ [][NextConc]_vars

-----------------------------------------------------------------------------
(* Properties of the store, one request at a time.                         *)

Threads(store) == store.dms.threads

Ids(list) == {list[i].id : i \in DOMAIN list}

UniqueIds(list) == \A i, j \in DOMAIN list : list[i].id = list[j].id => i = j

NoRepeatedKey(messages) ==
    \A i, j \in DOMAIN messages : Key(messages[i]) = Key(messages[j]) => i = j

IsPrefix(s, t) == Len(s) <= Len(t) /\ SubSeq(t, 1, Len(s)) = s

\* The position of the entity with this id in a list of unique ids
Pos(list, id) == CHOOSE i \in DOMAIN list : list[i].id = id

\* The last entry of the list with this id
LastWithId(list, id) ==
    list[CHOOSE i \in DOMAIN list :
            /\ list[i].id = id
            /\ \A j \in DOMAIN list : list[j].id = id => j <= i]

\* An incoming state that names an id twice, or a DM message twice
HasRepeats(S) ==
    \/ ~UniqueIds(S.users) \/ ~UniqueIds(S.posts) \/ ~UniqueIds(S.events)
    \/ \E tid \in DOMAIN Threads(S) : ~NoRepeatedKey(Threads(S)[tid].messages)

\* C1: merge_state is idempotent: in every reachable store, for every
\* incoming state S, merging S a second time right after merging it leaves
\* the store as the first merge left it, collection by collection and in the
\* same order.
C1_Idempotent ==
    \A S \in IncomingStates :
        LET once == Merged(db, S) IN Merged(once, S) = once

\* A store that holds a post and a thread, and an incoming state with
\* repeats whose merge changes it.
C1_Witness ==
    /\ db.posts # <<>>
    /\ Threads(db) # NoThreads
    /\ \E S \in IncomingStates :
          /\ HasRepeats(S)
          /\ Merged(db, S) # db
          /\ Merged(Merged(db, S), S) = Merged(db, S)

\* C2: after a merge_state, a thread that held no two messages with the same
\* (ts, from, text) before it (or was not in the store) holds no two such
\* messages.
C2_NoDuplicateMessages ==
    [][\A tid \in DOMAIN Threads(db') :
          (tid \in DOMAIN Threads(db) => NoRepeatedKey(Threads(db)[tid].messages))
              => NoRepeatedKey(Threads(db')[tid].messages)]_vars

SortedDesc(posts) ==
    \A i, j \in DOMAIN posts : i < j => posts[i].createdAt >= posts[j].createdAt

\* Posts of equal createdAt stand in the list as they stand in the mapping.
KeepsOrderOfEqual(mapping, posts) ==
    \A i, j \in DOMAIN mapping :
        (i < j /\ mapping[i].createdAt = mapping[j].createdAt)
            => Pos(posts, mapping[i].id) < Pos(posts, mapping[j].id)

\* C3: db.posts is always ordered by createdAt descending, and merge_state
\* and create_or_update_post leave posts of equal createdAt in the order of
\* the id-keyed mapping they sort.
C3_PostsSorted ==
    /\ SortedDesc(db.posts)
    /\ \A ps \in IncomingPosts :
          LET merged == Merged(db, OnlyPosts(ps)).posts
          IN /\ SortedDesc(merged)
             /\ KeepsOrderOfEqual(UpsertAll(ById(db.posts), ps), merged)
    /\ \A post \in Posts :
          /\ SortedDesc(PostUpserted(db.posts, post))
          /\ KeepsOrderOfEqual(DictSet(ById(db.posts), post),
                               PostUpserted(db.posts, post))

\* Two stored posts of equal createdAt, the one of the larger id first.
C3_Witness ==
    /\ Len(db.posts) = 2
    /\ db.posts[1].createdAt = db.posts[2].createdAt
    /\ db.posts[1].id > db.posts[2].id

\* C4: no two users, no two posts and no two events of the store share an
\* id, also right after the merge of an incoming list that repeats an id.
C4_UniqueIds ==
    /\ UniqueIds(db.users) /\ UniqueIds(db.posts) /\ UniqueIds(db.events)
    /\ \A us \in IncomingUsers : UniqueIds(Merged(db, OnlyUsers(us)).users)
    /\ \A ps \in IncomingPosts : UniqueIds(Merged(db, OnlyPosts(ps)).posts)
    /\ \A es \in IncomingEvents : UniqueIds(Merged(db, OnlyEvents(es)).events)
    /\ \A post \in Posts : UniqueIds(PostUpserted(db.posts, post))
    /\ \A ev \in Events : UniqueIds(EventUpserted(db.events, ev))

\* A store with a user and an event, and an incoming list that names the
\* id of the stored user twice.
C4_Witness ==
    /\ db.users # <<>>
    /\ db.events # <<>>
    /\ \E us \in IncomingUsers :
          /\ ~UniqueIds(us)
          /\ us[1].id \in Ids(db.users)

CountOf(unread, uid) == IF uid \in DOMAIN unread THEN unread[uid] ELSE 0

\* The unread counts of the threads of the store after a merge of incoming
\* threads: the larger of stored and incoming, or unchanged.
C5_MaxAtMerge ==
    \A th \in IncomingDms : \A tid \in DOMAIN Threads(db) :
        LET before == Threads(db)[tid].unread
            after == Threads(Merged(db, OnlyDms(th)))[tid].unread
        IN IF tid \in DOMAIN th
           THEN /\ DOMAIN after = DOMAIN before \cup DOMAIN th[tid].unread
                /\ \A uid \in DOMAIN after :
                      /\ after[uid] >= CountOf(before, uid)
                      /\ after[uid] = IF uid \in DOMAIN th[tid].unread
                                      THEN Max(CountOf(before, uid), th[tid].unread[uid])
                                      ELSE before[uid]
           ELSE after = before

\* A step leaves every unread count of the store at least as large.
C5_NeverDecreases ==
    \A tid \in DOMAIN Threads(db) : \A uid \in DOMAIN Threads(db)[tid].unread :
        /\ tid \in DOMAIN Threads(db')
        /\ uid \in DOMAIN Threads(db')[tid].unread
        /\ Threads(db')[tid].unread[uid] >= Threads(db)[tid].unread[uid]

\* C5: for every thread of the store and every user, a merge leaves the
\* unread count at the larger of the stored count (0 when there is none)
\* and the incoming count when the incoming thread lists the user, and as
\* it was otherwise; no step of the store decreases an unread count.
C5_UnreadMax == []C5_MaxAtMerge /\ [][C5_NeverDecreases]_vars

\* A stored thread with an unread count above the smallest incoming one.
C5_Witness ==
    \E tid \in DOMAIN Threads(db) : \E uid \in DOMAIN Threads(db)[tid].unread :
        \E th \in IncomingDms :
            /\ tid \in DOMAIN th
            /\ uid \in DOMAIN th[tid].unread
            /\ th[tid].unread[uid] < Threads(db)[tid].unread[uid]

\* The lines, each trimmed, that are not empty and occur for the first time
Trimmed(lines) == [i \in DOMAIN lines |-> Strip(lines[i])]

FirstSeen(lines) ==
    {i \in DOMAIN lines :
        lines[i] # <<>> /\ \A j \in DOMAIN lines : j < i => lines[j] # lines[i]}

RECURSIVE Pick(_, _)
Pick(lines, indices) ==
    IF indices = {} THEN <<>>
    ELSE LET i == CHOOSE k \in indices : \A l \in indices : k <= l
         IN <<lines[i]>> \o Pick(lines, indices \ {i})

FirstOccurrences(lines) == Pick(Trimmed(lines), FirstSeen(Trimmed(lines)))

CleanLines(lines) ==
    \A i \in DOMAIN lines :
        /\ lines[i] # <<>>
        /\ ~IsSpace(lines[i][1]) /\ ~IsSpace(lines[i][Len(lines[i])])
        /\ \A j \in DOMAIN lines : lines[i] = lines[j] => i = j

\* C6: after a merge, db.tickerLines is the stored lines followed by the
\* incoming lines, each line trimmed, the empty lines dropped and only the
\* first occurrence of a line kept; the lines of the store are non-empty,
\* trimmed and pairwise distinct, and a merge keeps the stored lines, in
\* their order, ahead of the lines it adds.
C6_TickerLines ==
    /\ CleanLines(db.tickerLines)
    /\ \A ls \in IncomingTickerLines :
          LET merged == Merged(db, OnlyTickerLines(ls)).tickerLines
          IN /\ merged = FirstOccurrences(db.tickerLines \o ls)
             /\ IsPrefix(db.tickerLines, merged)
             /\ CleanLines(merged)

\* A store with a line "a", merged from " a ", for which an incoming list
\* holds " a " again and then a new line.
C6_Witness ==
    /\ Len(db.tickerLines) = Len(InitialTickerLines) + 1
    /\ db.tickerLines[Len(db.tickerLines)] = <<"a">>
    /\ \E ls \in IncomingTickerLines :
          /\ Len(ls) = 2 /\ Strip(ls[1]) = <<"a">>
          /\ Merged(db, OnlyTickerLines(ls)).tickerLines
                = db.tickerLines \o <<Strip(ls[2])>>

\* The list holds, for every id of stored or incoming, the last incoming
\* entity of that id, or the stored one when no incoming entity has the id.
LastWriteWins(stored, incoming, result) ==
    /\ Ids(result) = Ids(stored) \cup Ids(incoming)
    /\ \A i \in DOMAIN result :
          result[i] = IF result[i].id \in Ids(incoming)
                      THEN LastWithId(incoming, result[i].id)
                      ELSE LastWithId(stored, result[i].id)

\* C7: after merge_state, create_or_update_post and create_or_update_event
\* the stored user, post or event of an id is the entity submitted last
\* with that id, whole, and the entity of an id not submitted is unchanged.
C7_LastWriteWins ==
    /\ \A us \in IncomingUsers :
          LastWriteWins(db.users, us, Merged(db, OnlyUsers(us)).users)
    /\ \A ps \in IncomingPosts :
          LastWriteWins(db.posts, ps, Merged(db, OnlyPosts(ps)).posts)
    /\ \A es \in IncomingEvents :
          LastWriteWins(db.events, es, Merged(db, OnlyEvents(es)).events)
    /\ \A post \in Posts :
          LastWriteWins(db.posts, <<post>>, PostUpserted(db.posts, post))
    /\ \A ev \in Events :
          LastWriteWins(db.events, <<ev>>, EventUpserted(db.events, ev))

\* A store with post 1 of createdAt 200 and 5 likes, for which an incoming
\* list holds post 1 twice, last with createdAt 100 and no likes.
C7_Witness ==
    /\ \E i \in DOMAIN db.posts :
          db.posts[i].id = 1 /\ db.posts[i].createdAt = 200 /\ db.posts[i].likes = 5
    /\ \E ps \in IncomingPosts :
          /\ Len(ps) = 2 /\ ps[1].id = 1 /\ ps[2].id = 1
          /\ ps[1].createdAt = 200 /\ ps[2].createdAt = 100
          /\ \E j \in DOMAIN Merged(db, OnlyPosts(ps)).posts :
                Merged(db, OnlyPosts(ps)).posts[j] = ps[2]

\* C8: merging the empty incoming state leaves users, posts, events, the
\* threads with their messages and unread maps, and the ticker lines as
\* they were.
C8_EmptyIsNoOp == Merged(db, EmptyState) = db

\* A store with a post and a thread that holds a message.
C8_Witness ==
    /\ db.posts # <<>>
    /\ \E tid \in DOMAIN Threads(db) : Threads(db)[tid].messages # <<>>

\* The messages of the threads of the store after a merge of incoming
\* threads: the stored ones, then the incoming ones of a key not stored.
C9_AppendsMissing ==
    \A th \in IncomingDms :
        LET after == Threads(Merged(db, OnlyDms(th)))
        IN \A tid \in DOMAIN Threads(db) :
              LET old == Threads(db)[tid].messages
                  new(m) == \A i \in DOMAIN old : Key(old[i]) # Key(m)
              IN /\ tid \in DOMAIN after
                 /\ IsPrefix(old, after[tid].messages)
                 /\ after[tid].messages =
                       old \o (IF tid \in DOMAIN th
                               THEN SelectSeq(th[tid].messages, new) ELSE <<>>)

\* A step keeps every thread, and its messages as a prefix of the new ones.
C9_NothingRemoved ==
    \A tid \in DOMAIN Threads(db) :
        /\ tid \in DOMAIN Threads(db')
        /\ IsPrefix(Threads(db)[tid].messages, Threads(db')[tid].messages)

-----------------------------------------------------------------------------
(* Properties of the handlers run at once.                                 *)

\* The posts worker w submits
Submitted(w) ==
    IF req[w].kind = "post" THEN <<req[w].post>>
    ELSE IF req[w].kind = "state" THEN req[w].incoming.posts
    ELSE <<>>

BothDone == \A w \in Workers : pc[w] = "done"

\* C10: nothing serializes two upserts of posts: once both have completed,
\* db.posts is the sorted mapping that one of them built from the db.posts
\* it read plus its own post, whatever the other assigned in between; so
\* the post of the other request is lost when that mapping was built
\* before the other assigned.
C10_StoreIsOneMapping ==
    BothDone =>
        \E w \in Workers :
            /\ db.posts = SortedByCreatedAtDesc(local[w])
            /\ Ids(Submitted(w)) \subseteq Ids(db.posts)

\* Both requests have completed, for posts of distinct ids, and the store
\* holds the post of one of them only.
C10_LostUpdate ==
    /\ BothDone
    /\ Ids(Submitted("w1")) \cap Ids(Submitted("w2")) = {}
    /\ \E w \in Workers :
          /\ Ids(Submitted(w)) # {}
          /\ Ids(Submitted(w)) \cap Ids(db.posts) = {}
          /\ \A v \in Workers \ {w} :
                Ids(Submitted(v)) # {} /\ Ids(Submitted(v)) \subseteq Ids(db.posts)

====
